---- MODULE Spec2Model ----
(***************************************************************************)
(* Model of src/main.rs: the crates.io dump minifier.                      *)
(*                                                                         *)
(*   main()      download_if_updated, process(), write "dump",             *)
(*               "last_updated"                                            *)
(*   process()   the db_dump::Loader row callbacks, the dependency count,  *)
(*               the ranking, the "keywords" and "categories" files        *)
(*   Crate       to_vec / from_vec, the binary record codec                *)
(*                                                                         *)
(* Strings are sequences of bytes, Option<T> is a sequence of length 0     *)
(* (None) or 1 (Some), a BTreeMap is a function on the set of its keys.    *)
(***************************************************************************)
EXTENDS Integers, Sequences, FiniteSets, TLC

VARIABLES pc, files,
          crates, dependencies, most_recent, libs, stable_versions, versions,
          version_count, crate_keywords, crate_categories,
          all_keywords, all_categories,
          seen_versions, seen_keywords, seen_categories,
          out,
          pkg, buf, back

ingest == <<crates, dependencies, most_recent, libs, stable_versions, versions,
            version_count, crate_keywords, crate_categories,
            all_keywords, all_categories>>
seen == <<seen_versions, seen_keywords, seen_categories>>
codec == <<pkg, buf, back>>
vars == <<pc, files, ingest, seen, out, codec>>

(***************************************************************************)
(* Bounds of the model.                                                    *)
(***************************************************************************)
\* rows of the crates, versions and dependencies tables in one load
MaxRows == 5
\* rows of the dependencies table
MaxDeps == 3
\* version rows of the latest-version specification
MaxSemverRows == 3
\* rows of the keywords and categories tables
MaxLookupRows == 3
\* rows of the crates_keywords, crates_categories and default_versions tables
MaxAssocRows == 1
\* length of the keyword and category lists of an encoded Crate
MaxListLen == 2

None == <<>>
Some(x) == <<x>>

\* the ids and timestamps the rows are drawn from
CrateIds == {1, 2}
VersionIds == {1, 2, 3}
Times == {1, 2}
\* "a", "b"
Names == {<<97>>, <<98>>}

(***************************************************************************)
(* BTreeMap helpers.                                                       *)
(***************************************************************************)
EmptyMap == << >>
Put(m, k, v) == [x \in (DOMAIN m) \cup {k} |-> IF x = k THEN v ELSE m[x]]
Get(m, k) == IF k \in DOMAIN m THEN Some(m[k]) ELSE None

\* The elements of a set of integers in ascending order (BTreeMap iteration).
RECURSIVE Ascending(_)
Ascending(S) ==
    IF S = {} THEN <<>>
    ELSE LET lo == CHOOSE x \in S : \A y \in S : x <= y
         IN <<lo>> \o Ascending(S \ {lo})

RECURSIVE Concat(_)
Concat(ss) == IF ss = <<>> THEN <<>> ELSE Head(ss) \o Concat(Tail(ss))

(***************************************************************************)
(* Little-endian u32 and length-prefixed strings.                          *)
(***************************************************************************)
\* u32::to_le_bytes: the four low-order bytes, least significant first.
ToLeBytes(n) ==
    <<n % 256, (n \div 256) % 256, (n \div 65536) % 256, (n \div 16777216) % 256>>
\* u32::from_le_bytes
FromLeBytes(b) == b[1] + 256 * b[2] + 65536 * b[3] + 16777216 * b[4]
\* `x as u32`: keeps the four low-order bytes of x.
AsU32(n) == FromLeBytes(ToLeBytes(n))
\* the add_str closure of to_vec, and the same three lines of the table writers
AddStr(s) == ToLeBytes(AsU32(Len(s))) \o s

(***************************************************************************)
(* semver::Version: major.minor.patch and a pre-release tag, here a        *)
(* sequence of numeric identifiers (<<>> is a stable version).             *)
(***************************************************************************)
\* 0.0.0, 1.0.0-0, 1.0.0-1, 1.0.0, in ascending order
Semvers ==
    {[major |-> 0, minor |-> 0, patch |-> 0, pre |-> <<>>],
     [major |-> 1, minor |-> 0, patch |-> 0, pre |-> <<0>>],
     [major |-> 1, minor |-> 0, patch |-> 0, pre |-> <<1>>],
     [major |-> 1, minor |-> 0, patch |-> 0, pre |-> <<>>]}

RECURSIVE IdentsLess(_, _)
IdentsLess(p, q) ==
    IF q = <<>> THEN FALSE
    ELSE IF p = <<>> THEN TRUE
    ELSE IF Head(p) # Head(q) THEN Head(p) < Head(q)
    ELSE IdentsLess(Tail(p), Tail(q))

\* Prerelease::cmp: the empty tag is greater than every non-empty one.
PreLess(p, q) ==
    IF p = <<>> THEN FALSE
    ELSE IF q = <<>> THEN TRUE
    ELSE IdentsLess(p, q)

\* semver::Version's `<`
VersionLess(a, b) ==
    IF a.major # b.major THEN a.major < b.major
    ELSE IF a.minor # b.minor THEN a.minor < b.minor
    ELSE IF a.patch # b.patch THEN a.patch < b.patch
    ELSE PreLess(a.pre, b.pre)

\* decimal digits of a number, as bytes
RECURSIVE Digits(_)
Digits(n) == IF n < 10 THEN <<48 + n>> ELSE Digits(n \div 10) \o <<48 + (n % 10)>>

RECURSIVE JoinDots(_)
JoinDots(ids) ==
    IF Len(ids) = 1 THEN Digits(Head(ids))
    ELSE Digits(Head(ids)) \o <<46>> \o JoinDots(Tail(ids))

\* semver::Version::to_string: "1.2.3" or "1.2.3-0.1"
VersionToString(v) ==
    Digits(v.major) \o <<46>> \o Digits(v.minor) \o <<46>> \o Digits(v.patch)
        \o (IF v.pre = <<>> THEN <<>> ELSE <<45>> \o JoinDots(v.pre))

(***************************************************************************)
(* The rows the dump source can deliver.                                   *)
(***************************************************************************)
CrateRows ==
    [id : CrateIds, name : Names, description : {<<>>},
     repository : {None}, homepage : {None}, documentation : {None}]

OneZeroZero == [major |-> 1, minor |-> 0, patch |-> 0, pre |-> <<>>]

\* version rows of the ranking specification: library versions, published
\* at different times
RankVersionRows ==
    [id : VersionIds, crate_id : CrateIds, created_at : Times, has_lib : {TRUE},
     num : {OneZeroZero}]

\* version rows of the library-filter specification: with and without a
\* library target
LibVersionRows ==
    [id : VersionIds, crate_id : CrateIds, created_at : {1}, has_lib : BOOLEAN,
     num : {OneZeroZero}]

\* version rows of the latest-version specification: different version numbers
SemverVersionRows ==
    [id : 1..MaxSemverRows, crate_id : CrateIds, created_at : {1}, has_lib : {TRUE},
     num : Semvers]

DependencyRows == [version_id : VersionIds, crate_id : CrateIds]

LookupIds == {1, 2}
LookupRows == [id : LookupIds, name : {<<97>>, <<98>>}]
AssocRows == [crate_id : CrateIds, id : LookupIds]
DefaultVersionRows == [crate_id : CrateIds, num_versions : {None, Some(3)}]

(***************************************************************************)
(* The row callbacks registered on db_dump::Loader (process, lines 92-155) *)
(***************************************************************************)
\* how many crate, version and dependency rows the load has delivered so far
RowsDelivered == Cardinality(crates) + Cardinality(seen_versions) + Len(dependencies)

\* .crates(|row| crates.insert(row)): a BTreeSet ordered by the row's id
CratesRow(row) ==
    /\ pc = "load"
    /\ RowsDelivered < MaxRows
    /\ \A c \in crates : c.id # row.id /\ c.name # row.name
    /\ crates' = crates \cup {row}
    /\ UNCHANGED <<pc, files, dependencies, most_recent, libs, stable_versions,
                   versions, version_count, crate_keywords, crate_categories,
                   all_keywords, all_categories, seen, out, codec>>

\* .dependencies(|row| dependencies.push(row))
DependenciesRow(row) ==
    /\ pc = "load"
    /\ RowsDelivered < MaxRows
    /\ Len(dependencies) < MaxDeps
    /\ dependencies' = Append(dependencies, row)
    /\ UNCHANGED <<pc, files, crates, most_recent, libs, stable_versions,
                   versions, version_count, crate_keywords, crate_categories,
                   all_keywords, all_categories, seen, out, codec>>

\* RunningMax without the comparison: the row delivered last wins
RunningMaxLastWins(m, k, v) == Put(m, k, v)

\* entry(k).and_modify(|old| if *old < *v { *old = v }).or_insert(v)
RunningMax(m, k, v) ==
    IF k \in DOMAIN m
    THEN IF VersionLess(m[k], v) THEN Put(m, k, v) ELSE m
    ELSE Put(m, k, v)

\* MostRecentUpdate without the created_at comparison
MostRecentLastWins(m, row) == Put(m, row.crate_id, row)

\* match most_recent.entry(row.crate_id) { Vacant => insert, Occupied => if newer }
MostRecentUpdate(m, row) ==
    IF row.crate_id \notin DOMAIN m THEN Put(m, row.crate_id, row)
    ELSE IF row.created_at > m[row.crate_id].created_at THEN Put(m, row.crate_id, row)
    ELSE m

\* if row.has_lib { libs.insert(row.crate_id) }
LibsUpdate(s, row) == IF row.has_lib THEN s \cup {row.crate_id} ELSE s

\* .versions(|row| ...)
VersionsRow(row) ==
    /\ pc = "load"
    /\ RowsDelivered < MaxRows
    /\ \A r \in seen_versions : r.id # row.id
    /\ stable_versions' = IF row.num.pre = <<>>
                             THEN RunningMax(stable_versions, row.crate_id, row.num)
                             ELSE stable_versions
    /\ versions' = IF row.num.pre = <<>>
                      THEN versions
                      ELSE RunningMax(versions, row.crate_id, row.num)
    /\ libs' = LibsUpdate(libs, row)
    /\ most_recent' = MostRecentUpdate(most_recent, row)
    /\ seen_versions' = seen_versions \cup {row}
    /\ UNCHANGED <<pc, files, crates, dependencies, version_count, crate_keywords,
                   crate_categories, all_keywords, all_categories,
                   seen_keywords, seen_categories, out, codec>>

\* how many rows the three per-crate association tables have delivered so far
RECURSIVE SumLens(_, _)
SumLens(m, S) ==
    IF S = {} THEN 0
    ELSE LET k == CHOOSE x \in S : TRUE IN Len(m[k]) + SumLens(m, S \ {k})
AssocDelivered ==
    SumLens(crate_keywords, DOMAIN crate_keywords)
      + SumLens(crate_categories, DOMAIN crate_categories)
      + Cardinality(DOMAIN version_count)

\* .default_versions(|row| version_count.insert(crate_id, num_versions.unwrap_or_default()))
DefaultVersionsRow(row) ==
    /\ pc = "load"
    /\ row.crate_id \notin DOMAIN version_count
    /\ AssocDelivered < MaxAssocRows
    /\ version_count' = Put(version_count, row.crate_id,
                            IF row.num_versions = None THEN 0 ELSE row.num_versions[1])
    /\ UNCHANGED <<pc, files, crates, dependencies, most_recent, libs, stable_versions,
                   versions, crate_keywords, crate_categories, all_keywords,
                   all_categories, seen, out, codec>>

\* map.entry(k).or_default().push(v)
PushEntry(m, k, v) == Put(m, k, IF k \in DOMAIN m THEN Append(m[k], v) ELSE <<v>>)

\* .crates_keywords(|row| crate_keywords.entry(crate_id).or_default().push(keyword_id))
CratesKeywordsRow(row) ==
    /\ pc = "load"
    /\ AssocDelivered < MaxAssocRows
    /\ crate_keywords' = PushEntry(crate_keywords, row.crate_id, row.id)
    /\ UNCHANGED <<pc, files, crates, dependencies, most_recent, libs, stable_versions,
                   versions, version_count, crate_categories, all_keywords,
                   all_categories, seen, out, codec>>

\* .crates_categories(|row| crate_categories.entry(crate_id).or_default().push(category_id))
CratesCategoriesRow(row) ==
    /\ pc = "load"
    /\ AssocDelivered < MaxAssocRows
    /\ crate_categories' = PushEntry(crate_categories, row.crate_id, row.id)
    /\ UNCHANGED <<pc, files, crates, dependencies, most_recent, libs, stable_versions,
                   versions, version_count, crate_keywords, all_keywords,
                   all_categories, seen, out, codec>>

\* InsertName as entry(id).or_insert(name): an existing key keeps its value
InsertIfAbsent(m, row) == IF row.id \in DOMAIN m THEN m ELSE Put(m, row.id, row.name)

\* BTreeMap::insert(id, name): the value of an existing key is replaced
InsertName(m, row) == Put(m, row.id, row.name)

\* .keywords(|row| all_keywords.insert(row.id, row.keyword.clone()))
KeywordsRow(row) ==
    /\ pc = "load"
    /\ Len(seen_keywords) + Len(seen_categories) < MaxLookupRows
    /\ all_keywords' = InsertName(all_keywords, row)
    /\ seen_keywords' = Append(seen_keywords, row)
    /\ UNCHANGED <<pc, files, crates, dependencies, most_recent, libs, stable_versions,
                   versions, version_count, crate_keywords, crate_categories,
                   all_categories, seen_versions, seen_categories, out, codec>>

\* .categories(|row| all_categories.insert(row.id, row.category.clone()))
CategoriesRow(row) ==
    /\ pc = "load"
    /\ Len(seen_keywords) + Len(seen_categories) < MaxLookupRows
    /\ all_categories' = InsertName(all_categories, row)
    /\ seen_categories' = Append(seen_categories, row)
    /\ UNCHANGED <<pc, files, crates, dependencies, most_recent, libs, stable_versions,
                   versions, version_count, crate_keywords, crate_categories,
                   all_keywords, seen_versions, seen_keywords, out, codec>>

(***************************************************************************)
(* Crate::to_vec and Crate::from_vec.                                      *)
(***************************************************************************)
RECURSIVE U32s(_)
U32s(ids) == IF ids = <<>> THEN <<>> ELSE ToLeBytes(Head(ids)) \o U32s(Tail(ids))

\* ToVec with homepage and documentation written in the other order
ToVecSwapped(c) ==
    ToLeBytes(c.order)
      \o ToLeBytes(c.num_versions)
      \o ToLeBytes(AsU32(Len(c.keywords))) \o U32s(c.keywords)
      \o ToLeBytes(AsU32(Len(c.categories))) \o U32s(c.categories)
      \o AddStr(c.name)
      \o AddStr(c.description)
      \o AddStr(IF c.repository = None THEN <<>> ELSE c.repository[1])
      \o AddStr(IF c.documentation = None THEN <<>> ELSE c.documentation[1])
      \o AddStr(IF c.homepage = None THEN <<>> ELSE c.homepage[1])
      \o AddStr(IF c.latest_stable_version = None THEN <<>> ELSE c.latest_stable_version[1])
      \o AddStr(IF c.latest_version = None THEN <<>> ELSE c.latest_version[1])

ToVec(c) ==
    ToLeBytes(c.order)
      \o ToLeBytes(c.num_versions)
      \o ToLeBytes(AsU32(Len(c.keywords))) \o U32s(c.keywords)
      \o ToLeBytes(AsU32(Len(c.categories))) \o U32s(c.categories)
      \o AddStr(c.name)
      \o AddStr(c.description)
      \o AddStr(IF c.repository = None THEN <<>> ELSE c.repository[1])
      \o AddStr(IF c.homepage = None THEN <<>> ELSE c.homepage[1])
      \o AddStr(IF c.documentation = None THEN <<>> ELSE c.documentation[1])
      \o AddStr(IF c.latest_stable_version = None THEN <<>> ELSE c.latest_stable_version[1])
      \o AddStr(IF c.latest_version = None THEN <<>> ELSE c.latest_version[1])

\* A read at a cursor: ok is FALSE when the slice is out of bounds (a panic).
Failed == [ok |-> FALSE, val |-> <<>>, cursor |-> 0]

\* read_u32!
ReadU32(data, r) ==
    IF ~r.ok \/ r.cursor + 4 > Len(data) THEN Failed
    ELSE [ok |-> TRUE,
          val |-> FromLeBytes(SubSeq(data, r.cursor + 1, r.cursor + 4)),
          cursor |-> r.cursor + 4]

\* for _ in 0..n { v.push(read_u32!(data, cursor)) }
RECURSIVE ReadU32s(_, _, _, _)
ReadU32s(data, r, n, acc) ==
    IF ~r.ok THEN Failed
    ELSE IF n = 0 THEN [ok |-> TRUE, val |-> acc, cursor |-> r.cursor]
    ELSE LET x == ReadU32(data, r)
         IN IF x.ok THEN ReadU32s(data, x, n - 1, Append(acc, x.val)) ELSE Failed

\* read_string!: the bytes of the model are ASCII, so String::from_utf8 succeeds
ReadString(data, r) ==
    LET len == ReadU32(data, r)
    IN IF ~len.ok \/ len.cursor + len.val > Len(data) THEN Failed
       ELSE [ok |-> TRUE,
             val |-> SubSeq(data, len.cursor + 1, len.cursor + len.val),
             cursor |-> len.cursor + len.val]

\* if !data[cursor..].is_empty() { empty string => None, else Some } else { unreachable!() }
ReadOptString(data, r) ==
    IF ~r.ok \/ r.cursor >= Len(data) THEN Failed
    ELSE LET str == ReadString(data, r)
         IN IF ~str.ok THEN Failed
            ELSE [ok |-> TRUE,
                  val |-> IF Len(str.val) = 0 THEN None ELSE Some(str.val),
                  cursor |-> str.cursor]

\* Some(crate), or None when from_vec panics
FromVec(data) ==
    LET start == [ok |-> TRUE, val |-> 0, cursor |-> 0]
        order == ReadU32(data, start)
        num_versions == ReadU32(data, order)
        keywords_len == ReadU32(data, num_versions)
        keywords == ReadU32s(data, keywords_len, IF keywords_len.ok THEN keywords_len.val ELSE 0, <<>>)
        categories_len == ReadU32(data, keywords)
        categories == ReadU32s(data, categories_len, IF categories_len.ok THEN categories_len.val ELSE 0, <<>>)
        name == ReadString(data, categories)
        description == ReadString(data, name)
        repository == ReadOptString(data, description)
        homepage == ReadOptString(data, repository)
        documentation == ReadOptString(data, homepage)
        latest_stable_version == ReadOptString(data, documentation)
        latest_version == ReadOptString(data, latest_stable_version)
    IN IF ~latest_version.ok THEN None
       ELSE Some([order |-> order.val,
                  num_versions |-> num_versions.val,
                  keywords |-> keywords.val,
                  categories |-> categories.val,
                  name |-> name.val,
                  description |-> description.val,
                  repository |-> repository.val,
                  homepage |-> homepage.val,
                  documentation |-> documentation.val,
                  latest_stable_version |-> latest_stable_version.val,
                  latest_version |-> latest_version.val])

(***************************************************************************)
(* process(), after load has returned (lines 157-246).                     *)
(***************************************************************************)
\* FilterLibs without the filter
FilterLibsAll(cs, ls) == cs

\* crates.into_iter().filter(|c| libs.contains(&c.id))
FilterLibs(cs, ls) == {c \in cs : c.id \in ls}

\* Set::from_iter(most_recent.values().map(|version| version.id))
MostRecentIds(m) == {m[c].id : c \in DOMAIN m}

\* *count.entry(k).or_default() += 1
Increment(m, k) == Put(m, k, IF k \in DOMAIN m THEN m[k] + 1 ELSE 1)

\* CountsEdge without the set of counted pairs
CountsEdgeNoDedup(dep, recent, unique_dependency_edges) == dep.version_id \in recent

\* if most_recent.contains(&dep.version_id) && unique_dependency_edges.insert((v, c))
CountsEdge(dep, recent, unique_dependency_edges) ==
    /\ dep.version_id \in recent
    /\ <<dep.version_id, dep.crate_id>> \notin unique_dependency_edges

\* for dep in dependencies { ... }
RECURSIVE CountDependencies(_, _, _, _)
CountDependencies(deps, recent, unique_dependency_edges, count) ==
    IF deps = <<>> THEN count
    ELSE LET dep == Head(deps)
         IN IF CountsEdge(dep, recent, unique_dependency_edges)
            THEN CountDependencies(Tail(deps), recent,
                     unique_dependency_edges \cup {<<dep.version_id, dep.crate_id>>},
                     Increment(count, dep.crate_id))
            ELSE CountDependencies(Tail(deps), recent, unique_dependency_edges, count)

\* for crate_id in &crates { count.entry(crate_id.id).or_insert(0); }
ZeroFill(count, cs) ==
    [k \in (DOMAIN count) \cup {c.id : c \in cs} |->
        IF k \in DOMAIN count THEN count[k] ELSE 0]

\* SortUnstable without Reverse: the counts non-decreasing
SortAscending(count) ==
    LET n == Cardinality(DOMAIN count)
    IN {s \in [1..n -> DOMAIN count] :
          /\ \A i, j \in 1..n : i # j => s[i] # s[j]
          /\ \A i \in 1..n : i < n => count[s[i]] <= count[s[i + 1]]}

\* count.into_iter().collect() then sort_unstable_by_key(Reverse(count)):
\* every arrangement of the (id, count) pairs with the counts non-increasing;
\* an unstable sort does not say where equal keys end up.
SortUnstable(count) ==
    LET n == Cardinality(DOMAIN count)
    IN {s \in [1..n -> DOMAIN count] :
          /\ \A i, j \in 1..n : i # j => s[i] # s[j]
          /\ \A i \in 1..n : i < n => count[s[i]] >= count[s[i + 1]]}

\* opt.map(f): None stays None
MapVersion(opt) == IF opt = None THEN None ELSE Some(VersionToString(opt[1]))
\* map.get(k).map(..).unwrap_or_default() for the id lists and the version count
OrEmpty(opt) == IF opt = None THEN <<>> ELSE opt[1]
OrZero(opt) == IF opt = None THEN 0 ELSE opt[1]

\* the Crate pushed for one (id, count) pair (lines 225-243)
MakeCrate(crat, count) ==
    [order |-> AsU32(count),
     name |-> crat.name,
     repository |-> crat.repository,
     homepage |-> crat.homepage,
     documentation |-> crat.documentation,
     description |-> crat.description,
     latest_stable_version |-> MapVersion(Get(stable_versions, crat.id)),
     latest_version |-> MapVersion(Get(versions, crat.id)),
     categories |-> OrEmpty(Get(crate_categories, crat.id)),
     keywords |-> OrEmpty(Get(crate_keywords, crat.id)),
     num_versions |-> OrZero(Get(version_count, crat.id))]

\* for (id, count) in all_crates { if let Some(crat) = crates.get(&id) { out.push(..) } }
RECURSIVE BuildOut(_, _, _)
BuildOut(all_crates, count, cs) ==
    IF all_crates = <<>> THEN <<>>
    ELSE LET id == Head(all_crates)
             found == {c \in cs : c.id = id}
         IN (IF found = {} THEN <<>>
             ELSE <<MakeCrate(CHOOSE c \in found : TRUE, count[id])>>)
            \o BuildOut(Tail(all_crates), count, cs)

\* one entry of a lookup table file: id, then the length-prefixed name
TableEntry(id, name) == ToLeBytes(id) \o AddStr(name)

\* all_keywords.into_iter().map(..).flatten().collect(): entries in ascending id order
TableBytes(m) ==
    LET ids == Ascending(DOMAIN m)
    IN Concat([i \in 1..Len(ids) |-> TableEntry(ids[i], m[ids[i]])])

\* File::create(name) followed by write_all(bytes)
CreateAndWrite(fs, name, bytes) == Put(fs, name, bytes)

\* load returned Ok: the rest of process()
Process ==
    /\ pc = "load"
    /\ LET filtered == FilterLibs(crates, libs)
           recent == MostRecentIds(most_recent)
           count == ZeroFill(CountDependencies(dependencies, recent, {}, EmptyMap), filtered)
       IN \E all_crates \in SortUnstable(count) :
             out' = BuildOut(all_crates, count, filtered)
    /\ files' = CreateAndWrite(CreateAndWrite(files, "keywords", TableBytes(all_keywords)),
                               "categories", TableBytes(all_categories))
    /\ pc' = "processed"
    /\ UNCHANGED <<ingest, seen, codec>>

\* LoadError had the keywords file been created before the load
LoadErrorAfterCreate ==
    /\ pc = "load"
    /\ files' = CreateAndWrite(files, "keywords", <<>>)
    /\ pc' = "panicked"
    /\ UNCHANGED <<ingest, seen, out, codec>>

\* load returned Err: `?` returns it and main's unwrap() panics (lines 156, 23)
LoadError ==
    /\ pc = "load"
    /\ pc' = "panicked"
    /\ UNCHANGED <<files, ingest, seen, out, codec>>

(***************************************************************************)
(* main()                                                                  *)
(***************************************************************************)
\* lines 17-21: exit(1) unless the program has exactly one argument
Usage ==
    /\ pc = "start"
    /\ pc' = "exit1"
    /\ UNCHANGED <<files, ingest, seen, out, codec>>

\* download_if_updated: exit(20) when up to date, exit(21) without a
\* Last-Modified header, else the archive is written and the date returned.
\* The archive's bytes and the date are not modelled.
DownloadIfUpdated ==
    /\ pc = "start"
    /\ \E outcome \in {"load", "exit20", "exit21"} :
          /\ pc' = outcome
          /\ files' = IF outcome = "load"
                      THEN CreateAndWrite(files, "db-dump.tar.gz", <<>>)
                      ELSE files
    /\ UNCHANGED <<ingest, seen, out, codec>>

\* for crat in data { write_all(len as u32); write_all(by) }
RECURSIVE DumpBytes(_)
DumpBytes(data) ==
    IF data = <<>> THEN <<>>
    ELSE LET by == ToVec(Head(data))
         IN ToLeBytes(AsU32(Len(by))) \o by \o DumpBytes(Tail(data))

\* lines 24-33: the dump file, then last_updated
WriteDump ==
    /\ pc = "processed"
    /\ files' = CreateAndWrite(CreateAndWrite(files, "dump", DumpBytes(out)),
                               "last_updated", <<>>)
    /\ pc' = "done"
    /\ UNCHANGED <<ingest, seen, out, codec>>

(***************************************************************************)
(* The codec on its own: a Crate is encoded, the bytes are decoded.        *)
(***************************************************************************)
U32Samples == {0, 258, 2147483647}
IdLists == UNION {[1..n -> {1, 256}] : n \in 0..MaxListLen}
OptUrls == {None, Some(<<120>>)}
OptVersions == {None, Some(<<>>), Some(<<49, 46, 48>>)}
Packages ==
    [order : U32Samples, num_versions : {7},
     keywords : IdLists, categories : IdLists,
     name : {<<97>>, <<97, 98>>}, description : {<<>>, <<100>>},
     repository : {None, Some(<<>>), Some(<<120>>)}, homepage : OptUrls,
     documentation : OptUrls,
     latest_stable_version : OptVersions, latest_version : OptVersions]

Encode ==
    /\ pc = "encode"
    /\ buf' = ToVec(pkg)
    /\ pc' = "decode"
    /\ UNCHANGED <<files, ingest, seen, out, pkg, back>>

Decode ==
    /\ pc = "decode"
    /\ back' = FromVec(buf)
    /\ pc' = "decoded"
    /\ UNCHANGED <<files, ingest, seen, out, pkg, buf>>

(***************************************************************************)
(* Specifications.                                                         *)
(***************************************************************************)
InitIngest ==
    /\ files = EmptyMap
    /\ crates = {} /\ dependencies = <<>> /\ most_recent = EmptyMap /\ libs = {}
    /\ stable_versions = EmptyMap /\ versions = EmptyMap /\ version_count = EmptyMap
    /\ crate_keywords = EmptyMap /\ crate_categories = EmptyMap
    /\ all_keywords = EmptyMap /\ all_categories = EmptyMap
    /\ seen_versions = {} /\ seen_keywords = <<>> /\ seen_categories = <<>>
    /\ out = <<>>

Init ==
    /\ pc = "start"
    /\ InitIngest
    /\ pkg = None /\ buf = <<>> /\ back = None

\* ranking: crate, version and dependency rows
Next ==
    \/ \E row \in CrateRows : CratesRow(row)
    \/ \E row \in RankVersionRows : VersionsRow(row)
    \/ \E row \in DependencyRows : DependenciesRow(row)
    \/ Usage
    \/ DownloadIfUpdated
    \/ Process
    \/ LoadError
    \/ WriteDump

Spec == Init /\ [][Next]_vars

\* library filter: crate rows, version rows with and without a library
\* target, dependency rows
NextLib ==
    \/ \E row \in CrateRows : CratesRow(row)
    \/ \E row \in LibVersionRows : VersionsRow(row)
    \/ \E row \in DependencyRows : DependenciesRow(row)
    \/ Usage
    \/ DownloadIfUpdated
    \/ Process
    \/ LoadError
    \/ WriteDump

SpecLib == Init /\ [][NextLib]_vars

\* latest versions: crate rows and version rows with different version numbers
NextSemver ==
    \/ \E row \in CrateRows : CratesRow(row)
    \/ \E row \in SemverVersionRows : VersionsRow(row)
    \/ Usage
    \/ DownloadIfUpdated
    \/ Process
    \/ LoadError
    \/ WriteDump

SpecSemver == Init /\ [][NextSemver]_vars

\* lookup tables and per-crate associations
NextLookup ==
    \/ \E row \in LookupRows : KeywordsRow(row)
    \/ \E row \in LookupRows : CategoriesRow(row)
    \/ \E row \in AssocRows : CratesKeywordsRow(row)
    \/ \E row \in AssocRows : CratesCategoriesRow(row)
    \/ \E row \in DefaultVersionRows : DefaultVersionsRow(row)
    \/ Usage
    \/ DownloadIfUpdated
    \/ Process
    \/ LoadError
    \/ WriteDump

SpecLookup == Init /\ [][NextLookup]_vars

\* the codec
InitCodec ==
    /\ pc = "encode"
    /\ InitIngest
    /\ pkg \in Packages /\ buf = <<>> /\ back = None

NextCodec == Encode \/ Decode

SpecCodec == InitCodec /\ [][NextCodec]_vars

(***************************************************************************)
(* Properties.                                                             *)
(***************************************************************************)
Processed == pc \in {"processed", "done"}
OutputFiles == {"dump", "keywords", "categories"}

\* the package row an output record was built from (names are unique)
RowOf(rec) == CHOOSE c \in crates : c.name = rec.name
InOutput(c) == \E i \in DOMAIN out : out[i].name = c.name
HasEdge(v, b) ==
    \E i \in DOMAIN dependencies :
        dependencies[i].version_id = v /\ dependencies[i].crate_id = b
VersionsOf(id) == {r \in seen_versions : r.crate_id = id}
Superseded(r) ==
    \E w \in seen_versions : w.crate_id = r.crate_id /\ w.created_at > r.created_at
NoTies ==
    \A r, w \in seen_versions :
        (r.crate_id = w.crate_id /\ r.created_at = w.created_at) => r = w
\* the versions that may vote for package b: an edge to b and no newer version
Voters(b) == {r \in seen_versions : HasEdge(r.id, b) /\ ~Superseded(r)}

\* C1: a package is in the output of process() iff one of its version rows
\* has has_lib = TRUE, whatever the rows' order and its dependency count.
C1_LibraryOnly ==
    Processed =>
        \A c \in crates : InOutput(c) <=> (\E r \in VersionsOf(c.id) : r.has_lib)

\* a package without a library version that the newest version of a package
\* depends on is left out, while another package is put out
C1_Witness ==
    /\ pc = "processed"
    /\ out # <<>>
    /\ \E c \in crates :
          /\ VersionsOf(c.id) # {}
          /\ \A r \in VersionsOf(c.id) : ~r.has_lib
          /\ \E v \in MostRecentIds(most_recent) : HasEdge(v, c.id)
          /\ ~InOutput(c)

\* C2: an edge from a version that has a newer sibling adds nothing to the
\* target's count: the count is bounded by the versions with an edge to the
\* target and no newer sibling, and equals their number when no two versions
\* of a package share a timestamp.
C2_MostRecentOnly ==
    Processed =>
        \A i \in DOMAIN out :
            LET b == RowOf(out[i]).id
            IN /\ out[i].order <= Cardinality(Voters(b))
               /\ NoTies => out[i].order = Cardinality(Voters(b))

\* v_old has an edge to B, the newer v_new has none, and B is put out with count 0
C2_Witness ==
    /\ pc = "processed"
    /\ \E old, new \in seen_versions : \E i \in DOMAIN out :
          LET b == RowOf(out[i]).id
          IN /\ old.crate_id = new.crate_id
             /\ old.created_at < new.created_at
             /\ HasEdge(old.id, b)
             /\ ~HasEdge(new.id, b)
             /\ most_recent[old.crate_id] = new
             /\ b # old.crate_id
             /\ out[i].order = 0

\* C3: the count of a package is the number of most-recent versions with at
\* least one edge to it: several edges from one version to it count once.
C3_Dedup ==
    Processed =>
        \A i \in DOMAIN out :
            out[i].order =
                Cardinality({v \in MostRecentIds(most_recent) :
                                HasEdge(v, RowOf(out[i]).id)})

\* the first and the third edge of the list are the same pair, the second is
\* another one, and the pair's target has count 1
C3_Witness ==
    /\ pc = "processed"
    /\ Len(dependencies) = 3
    /\ dependencies[1] = dependencies[3]
    /\ dependencies[1] # dependencies[2]
    /\ dependencies[1].version_id \in MostRecentIds(most_recent)
    /\ \E i \in DOMAIN out :
          /\ RowOf(out[i]).id = dependencies[1].crate_id
          /\ out[i].order = 1

\* C4: the order field does not increase along the output sequence.
C4_Monotonic ==
    Processed =>
        \A i \in DOMAIN out : i < Len(out) => out[i].order >= out[i + 1].order

\* the package with the greater id has the greater count and comes first
C4_Witness ==
    /\ pc = "processed"
    /\ Len(out) = 2
    /\ out[1].order > out[2].order
    /\ RowOf(out[1]).id > RowOf(out[2]).id

\* bytewise order of two strings, equal strings included
RECURSIVE BytesLeq(_, _)
BytesLeq(a, b) ==
    IF a = <<>> THEN TRUE
    ELSE IF b = <<>> THEN FALSE
    ELSE IF Head(a) # Head(b) THEN Head(a) < Head(b)
    ELSE BytesLeq(Tail(a), Tail(b))

\* C7: two neighbours of the output with equal order are in ascending order
\* of their names.
C7_TieBreakByName ==
    Processed =>
        \A i \in DOMAIN out :
            (i < Len(out) /\ out[i].order = out[i + 1].order)
                => BytesLeq(out[i].name, out[i + 1].name)

\* C8: order is the number of OTHER packages whose most-recent version has an
\* edge to the package; the package's own most-recent version is not counted.
C8_OtherPackagesOnly ==
    Processed =>
        \A i \in DOMAIN out :
            LET b == RowOf(out[i]).id
            IN out[i].order =
                 Cardinality({x \in DOMAIN most_recent :
                                 x # b /\ HasEdge(most_recent[x].id, b)})

\* the greatest of a non-empty set of versions
MaxVersion(S) == CHOOSE m \in S : \A v \in S : ~VersionLess(m, v)
LatestOf(S) == IF S = {} THEN None ELSE Some(VersionToString(MaxVersion(S)))
StableOf(id) == {r.num : r \in {x \in VersionsOf(id) : x.num.pre = <<>>}}
PrereleaseOf(id) == {r.num : r \in {x \in VersionsOf(id) : x.num.pre # <<>>}}

\* C9: latest_stable_version is the greatest version without a pre-release
\* tag, latest_version the greatest version with one, None when there is
\* none, whatever the order of the version rows.
C9_LatestVersions ==
    Processed =>
        \A i \in DOMAIN out :
            LET id == RowOf(out[i]).id
            IN /\ out[i].latest_stable_version = LatestOf(StableOf(id))
               /\ out[i].latest_version = LatestOf(PrereleaseOf(id))

\* a package with two stable versions, the greater one delivered first, and a
\* pre-release greater than the lesser one
C9_Witness ==
    /\ pc = "processed"
    /\ \E i \in DOMAIN out : \E a, b, c \in VersionsOf(RowOf(out[i]).id) :
          /\ a.num.pre = <<>> /\ b.num.pre = <<>> /\ c.num.pre # <<>>
          /\ VersionLess(a.num, b.num)
          /\ VersionLess(a.num, c.num)
          /\ most_recent[a.crate_id] = b
          /\ out[i].latest_stable_version = Some(VersionToString(b.num))
          /\ out[i].latest_version = Some(VersionToString(c.num))

\* C10: while the load has not returned Ok, and after it has returned an
\* error, none of dump, keywords and categories exists.
C10_NoOutputOnLoadError ==
    ~Processed => (DOMAIN files) \cap OutputFiles = {}

\* the load fails after rows were delivered
C10_Witness ==
    /\ pc = "panicked"
    /\ crates # {} /\ seen_versions # {} /\ dependencies # <<>>
    /\ "db-dump.tar.gz" \in DOMAIN files

\* C5: a Crate whose optional fields are None or Some(non-empty) is decoded
\* from its encoding with every field as it was.
OptionalFields(c) ==
    {c.repository, c.homepage, c.documentation, c.latest_stable_version, c.latest_version}
NoEmptySome(c) == Some(<<>>) \notin OptionalFields(c)

C5_RoundTrip ==
    (pc = "decoded" /\ NoEmptySome(pkg)) => back = Some(pkg)

\* a Crate with two keywords, a category, an absent and a present optional
\* field has been encoded and decoded
C5_Witness ==
    /\ pc = "decoded"
    /\ NoEmptySome(pkg)
    /\ Len(pkg.keywords) = 2 /\ pkg.keywords[1] # pkg.keywords[2]
    /\ Len(pkg.categories) = 1
    /\ pkg.homepage = None /\ pkg.documentation # None
    /\ pkg.latest_version # None
    /\ back = Some(pkg)

\* the entries of a lookup table file, read until the end of the input
RECURSIVE ParseTable(_, _)
ParseTable(data, cursor) ==
    IF cursor >= Len(data) THEN <<>>
    ELSE LET id == ReadU32(data, [ok |-> TRUE, val |-> 0, cursor |-> cursor])
             name == ReadString(data, id)
         IN <<[id |-> id.val, name |-> name.val]>> \o ParseTable(data, name.cursor)

IdsOf(rows) == {rows[i].id : i \in DOMAIN rows}
FirstName(rows, id) ==
    rows[CHOOSE i \in DOMAIN rows :
            rows[i].id = id /\ \A j \in DOMAIN rows : rows[j].id = id => i <= j].name
LastName(rows, id) ==
    rows[CHOOSE i \in DOMAIN rows :
            rows[i].id = id /\ \A j \in DOMAIN rows : rows[j].id = id => j <= i].name

\* the table has one entry for each id of the rows and no other
OneEntryPerId(entries, rows) ==
    /\ \A i \in DOMAIN entries : entries[i].id \in IdsOf(rows)
    /\ \A id \in IdsOf(rows) :
          Cardinality({i \in DOMAIN entries : entries[i].id = id}) = 1

====
